---- MODULE Spec2Model ----
(***************************************************************************)
(* A model of src/src/pages/index.tsx: the landing view (Home) and the     *)
(* chat view (Chat) of the front-end.  Every React handler, effect         *)
(* callback, timer callback and promise continuation is one action; an     *)
(* action includes the re-render and the effects its state updates cause.  *)
(***************************************************************************)
EXTENDS Integers, Sequences, FiniteSets, TLC

\* ---------------------------------------------------------------- bounds
MaxMsgs == 2        \* longest message list explored
MaxTime == 2        \* largest session timer value explored
MaxDuration == 3    \* largest ban duration a `banned` event carries
MaxInits == 2       \* initVideo invocations explored in a video session
MaxSeconds == 6000  \* largest argument formatTime is applied to

Texts == {"hi"}                     \* the text typed or received
Durations == 0 .. MaxDuration       \* payloads of `banned`

\* ------------------------------------------------------------ vocabulary
Looking == "Looking for someone..."
Connected == "Connected to stranger"
Disconnected == "Stranger disconnected"

\* Number.prototype.toString().padStart(2, "0") for a non-negative integer
PadStartAlways(n) == "0" \o ToString(n)
PadStart2(n) == IF Len(ToString(n)) < 2 THEN "0" \o ToString(n) ELSE ToString(n)

formatTimeUnpadded(seconds) == ToString(seconds \div 60) \o ":" \o ToString(seconds % 60)
formatTime(seconds) == PadStart2(seconds \div 60) \o ":" \o PadStart2(seconds % 60)

BannedStatus(duration) == "You are banned (" \o formatTime(duration) \o ")"

InitialModeVideo == "video"
InitialMode == "text"

\* outbound channel events (channel.trigger); the payload is a tuple of
\* strings: <<>> for none, <<text>> for a message, <<screenshot, reason,
\* timestamp>> for a report
Ev(name, data) == [name |-> name, data |-> data]
NoData == <<>>

\* values of captureReportFrame
Null == "null"
EmptyDataURL == "data:,"
FrameDataURL == "data:image/jpeg;base64,frame"

\* ------------------------------------------------------------------ state
VARIABLES
    redirectToChat,   \* Home: the chat view is shown
    startPusher,      \* PusherContext: channel establishment was requested
    channel,          \* PusherContext: TRUE when the channel object exists
    mode,             \* Chat state
    messages,
    status,
    input,
    time,
    isBanned,
    banTimeLeft,
    banIntervals,     \* live setInterval timers of the ban countdown effect
    timerIntervals,   \* live setInterval timers of the session timer effect
    sameRender,       \* the render on screen is the one whose closures the
                      \* [channel] effect bound to the channel
    pc,               \* `pc` of the render the bound handlers close over
    localStream,      \* `localStream` of that render
    openPcs,          \* peer connections created and not closed
    liveStreams,      \* local streams captured whose tracks are not stopped
    awaitingMedia,    \* initVideo invocations suspended at getUserMedia
    awaitingOffer,    \* initVideo invocations suspended at createOffer
    signalBinds,      \* times initVideo bound client-offer/-answer/-ice
    remoteSrc,        \* remote <video>.srcObject was set by pc.ontrack
    remoteFrame,      \* the remote <video> holds a decoded frame
    last,             \* the handler that ran last
    emitted,          \* the events that handler triggered on the channel
    notice,           \* the toast that handler showed
    banEpoch,         \* parity of the number of `banned` events received
    banDuration,      \* duration of the latest `banned` event
    banTicks,         \* countdown ticks since the latest `banned` event
    fmtArg,           \* the argument of a formatTime call
    fmtResult         \* its result, "" before the call

home == <<redirectToChat, startPusher, channel>>
chatState == <<mode, messages, status, input, time, isBanned, banTimeLeft>>
timers == <<banIntervals, timerIntervals>>
video == <<pc, localStream, openPcs, liveStreams, awaitingMedia, awaitingOffer,
           signalBinds, remoteSrc, remoteFrame>>
banHistory == <<banEpoch, banDuration, banTicks>>
fmt == <<fmtArg, fmtResult>>
vars == <<home, chatState, timers, sameRender, video, last, emitted, notice,
          banHistory, fmt>>

\* the <video> elements are rendered in video mode only
RemoteVideoMounted == mode = "video"
LocalVideoMounted == mode = "video"

\* channel?.trigger(name, data): nothing is sent while there is no channel
Trigger(name, data) == IF channel THEN <<Ev(name, data)>> ELSE <<>>

\* [...m, entry]
AddMessageFront(m, entry) == <<entry>> \o m
AddMessage(m, entry) == Append(m, entry)

\* if (!input) return
EarlyReturnNever(inp) == FALSE
EarlyReturn(inp) == inp = ""

\* the session timer effect, deps [status]: the cleanup of the previous run,
\* then a new interval when the status is the connected status
TimerEffectNoCleanup(oldStatus, newStatus, n) ==
    IF oldStatus = newStatus THEN n
    ELSE n + (IF newStatus = Connected THEN 1 ELSE 0)
TimerEffect(oldStatus, newStatus, n) ==
    IF oldStatus = newStatus THEN n
    ELSE (IF oldStatus = Connected THEN n - 1 ELSE n)
         + (IF newStatus = Connected THEN 1 ELSE 0)

\* the ban countdown effect, deps [isBanned]: a new interval when the flag
\* became true; when it became false the cleanup clears the interval that
\* the tick has cleared already
BanEffectNoDeps(wasBanned, nowBanned, n) == IF nowBanned THEN n + 1 ELSE n
BanEffect(wasBanned, nowBanned, n) ==
    IF wasBanned = nowBanned THEN n
    ELSE IF nowBanned THEN n + 1 ELSE n

\* the updater of setBanTimeLeft in the countdown tick
BanUpdaterLate(t) ==
    IF t <= 0 THEN [ended |-> TRUE, left |-> 0] ELSE [ended |-> FALSE, left |-> t - 1]
BanUpdater(t) ==
    IF t <= 1 THEN [ended |-> TRUE, left |-> 0] ELSE [ended |-> FALSE, left |-> t - 1]

\* the status a countdown tick sets while t > 1 seconds remain
TickStatusStale(t) == BannedStatus(t)
TickStatus(t) == BannedStatus(t - 1)

\* captureReportFrame: null without a remote <video> or a 2d context; else
\* the canvas, sized videoWidth x videoHeight, as a data URL.  A video with
\* no decoded frame has size 0 x 0, and toDataURL of a canvas with no pixels
\* is "data:,"
captureReportFrame(ctxOk) ==
    IF ~RemoteVideoMounted THEN Null
    ELSE IF ~ctxOk THEN Null
    ELSE IF remoteFrame THEN FrameDataURL ELSE EmptyDataURL

\* !screenshot
Falsy(s) == s = Null \/ s = ""

InitWith(m) ==
    /\ redirectToChat = FALSE
    /\ startPusher = FALSE
    /\ channel = FALSE
    /\ mode = m
    /\ messages = <<>>
    /\ status = Looking
    /\ input = ""
    /\ time = 0
    /\ isBanned = FALSE
    /\ banTimeLeft = 0
    /\ banIntervals = 0
    /\ timerIntervals = 0
    /\ sameRender = FALSE
    /\ pc = "undefined"
    /\ localStream = "undefined"
    /\ openPcs = 0
    /\ liveStreams = 0
    /\ awaitingMedia = 0
    /\ awaitingOffer = 0
    /\ signalBinds = 0
    /\ remoteSrc = FALSE
    /\ remoteFrame = FALSE
    /\ last = "init"
    /\ emitted = <<>>
    /\ notice = "none"
    /\ banEpoch = 0
    /\ banDuration = 0
    /\ banTicks = 0

Init == InitWith(InitialMode) /\ fmtArg = 0 /\ fmtResult = ""

\* a session whose mode state starts as "video"
VideoInit == InitWith("video") /\ fmtArg = 0 /\ fmtResult = ""

\* ------------------------------------------------------------------- Home
onSubmitNoRedirect ==
    /\ ~redirectToChat
    /\ ~startPusher
    /\ startPusher' = TRUE
    /\ last' = "start"
    /\ emitted' = <<>>
    /\ notice' = "none"
    /\ UNCHANGED <<redirectToChat, channel, chatState, timers, sameRender, video,
                   banHistory, fmt>>

\* the start button is rendered while the landing view is shown
onSubmit ==
    /\ ~redirectToChat
    /\ startPusher' = TRUE
    /\ redirectToChat' = TRUE
    /\ last' = "start"
    /\ emitted' = <<>>
    /\ notice' = "none"
    /\ UNCHANGED <<channel, chatState, timers, sameRender, video, banHistory>>
    /\ UNCHANGED fmt

\* the provider delivers the channel: Chat renders again and the [channel]
\* effects of that render bind the handlers
ChannelEstablished ==
    /\ startPusher
    /\ ~channel
    /\ channel' = TRUE
    /\ sameRender' = TRUE
    /\ last' = "channel"
    /\ emitted' = <<>>
    /\ notice' = "none"
    /\ UNCHANGED <<redirectToChat, startPusher, chatState, timers, video, banHistory>>
    /\ UNCHANGED fmt

\* ------------------------------------------------------------ user actions
onChange ==
    /\ redirectToChat
    /\ mode = "text"
    /\ \E v \in Texts \cup {""} :
         /\ input' = v
         /\ sameRender' = (sameRender /\ v = input)
    /\ last' = "type"
    /\ emitted' = <<>>
    /\ notice' = "none"
    /\ UNCHANGED <<home, mode, messages, status, time, isBanned, banTimeLeft,
                   timers, video, banHistory>>
    /\ UNCHANGED fmt

\* stopVideo on the `pc` and `localStream` of the render the bound handlers
\* close over
StopVideo ==
    /\ localStream' = IF localStream = "live" THEN "stopped" ELSE localStream
    /\ liveStreams' = IF localStream = "live" THEN liveStreams - 1 ELSE liveStreams
    /\ pc' = IF pc = "open" THEN "closed" ELSE pc
    /\ openPcs' = IF pc = "open" THEN openPcs - 1 ELSE openPcs

\* handleNext with the timer and ban state it leaves behind; its stopVideo
\* reads the `pc` and `localStream` of the render on screen, which are
\* undefined unless that render is the one the handlers were bound in
NextAction(newTime, newBanned, newBanLeft) ==
    /\ redirectToChat
    /\ emitted' = Trigger("client-next", NoData)
    /\ IF sameRender THEN StopVideo
       ELSE UNCHANGED <<pc, localStream, openPcs, liveStreams>>
    /\ messages' = <<>>
    /\ status' = Looking
    /\ time' = newTime
    /\ isBanned' = newBanned
    /\ banTimeLeft' = newBanLeft
    /\ banIntervals' = IF newBanned = isBanned THEN banIntervals ELSE 0
    /\ timerIntervals' = TimerEffect(status, Looking, timerIntervals)
    /\ sameRender' = FALSE
    /\ last' = "next"
    /\ notice' = "none"
    /\ UNCHANGED <<home, mode, input, awaitingMedia, awaitingOffer, signalBinds,
                   remoteSrc, remoteFrame, banHistory>>
    /\ UNCHANGED fmt

handleNextKeepsTime == NextAction(time, isBanned, banTimeLeft)
handleNextClearsBan == NextAction(0, FALSE, 0)
handleNext == NextAction(0, isBanned, banTimeLeft)

sendMessageKeepsInput ==
    /\ redirectToChat
    /\ mode = "text"
    /\ last' = "send"
    /\ notice' = "none"
    /\ IF EarlyReturn(input)
       THEN /\ emitted' = <<>>
            /\ UNCHANGED <<messages, input, sameRender>>
       ELSE /\ Len(messages) < MaxMsgs
            /\ emitted' = Trigger("client-message", <<input>>)
            /\ messages' = AddMessage(messages, [from |-> "you", text |-> input])
            /\ input' = input
            /\ sameRender' = FALSE
    /\ UNCHANGED <<home, mode, status, time, isBanned, banTimeLeft, timers,
                   video, banHistory, fmt>>

sendMessage ==
    /\ redirectToChat
    /\ mode = "text"
    /\ last' = "send"
    /\ notice' = "none"
    /\ IF EarlyReturn(input)
       THEN /\ emitted' = <<>>
            /\ UNCHANGED <<messages, input, sameRender>>
       ELSE /\ Len(messages) < MaxMsgs
            /\ emitted' = Trigger("client-message", <<input>>)
            /\ messages' = AddMessage(messages, [from |-> "you", text |-> input])
            /\ input' = ""
            /\ sameRender' = FALSE
    /\ UNCHANGED <<home, mode, status, time, isBanned, banTimeLeft, timers,
                   video, banHistory>>
    /\ UNCHANGED fmt

reportUser ==
    /\ redirectToChat
    /\ \E ctxOk \in BOOLEAN :
         IF Falsy(captureReportFrame(ctxOk))
         THEN /\ notice' = "error"
              /\ emitted' = <<>>
         ELSE /\ emitted' = Trigger("client-report",
                    <<captureReportFrame(ctxOk), "Inappropriate behavior", "now">>)
              /\ notice' = "success"
    /\ last' = "report"
    /\ UNCHANGED <<home, chatState, timers, sameRender, video, banHistory>>
    /\ UNCHANGED fmt

\* ---------------------------------------------------------- inbound events
Banned ==
    /\ redirectToChat
    /\ channel
    /\ \E duration \in Durations :
         /\ isBanned' = TRUE
         /\ banTimeLeft' = duration
         /\ status' = BannedStatus(duration)
         /\ timerIntervals' = TimerEffect(status, BannedStatus(duration), timerIntervals)
         /\ banDuration' = duration
         /\ sameRender' = (/\ sameRender
                           /\ isBanned
                           /\ banTimeLeft = duration
                           /\ status = BannedStatus(duration))
    /\ banIntervals' = BanEffect(isBanned, TRUE, banIntervals)
    /\ banEpoch' = 1 - banEpoch
    /\ banTicks' = 0
    /\ last' = "banned"
    /\ emitted' = <<>>
    /\ notice' = "none"
    /\ UNCHANGED <<home, mode, messages, input, time, video>>
    /\ UNCHANGED fmt

\* `matched`: in video mode initVideo runs up to its await of getUserMedia
Matched ==
    /\ redirectToChat
    /\ channel
    /\ status' = Connected
    /\ timerIntervals' = TimerEffect(status, Connected, timerIntervals)
    /\ IF mode = "video" /\ RemoteVideoMounted /\ LocalVideoMounted
       THEN /\ signalBinds + awaitingMedia < MaxInits
            /\ awaitingMedia' = awaitingMedia + 1
       ELSE UNCHANGED awaitingMedia
    /\ sameRender' = (sameRender /\ status = Connected)
    /\ last' = "matched"
    /\ emitted' = <<>>
    /\ notice' = "none"
    /\ UNCHANGED <<home, mode, messages, input, time, isBanned, banTimeLeft,
                   banIntervals, pc, localStream, openPcs, liveStreams,
                   awaitingOffer, signalBinds, remoteSrc, remoteFrame, banHistory>>
    /\ UNCHANGED fmt

ClientMessage ==
    /\ redirectToChat
    /\ channel
    /\ Len(messages) < MaxMsgs
    /\ \E msg \in Texts :
         messages' = AddMessage(messages, [from |-> "stranger", text |-> msg])
    /\ sameRender' = FALSE
    /\ last' = "message"
    /\ emitted' = <<>>
    /\ notice' = "none"
    /\ UNCHANGED <<home, mode, status, input, time, isBanned, banTimeLeft,
                   timers, video, banHistory>>
    /\ UNCHANGED fmt

\* `client-disconnect`, with the events it triggers
DisconnectAction(out) ==
    /\ redirectToChat
    /\ channel
    /\ status' = Disconnected
    /\ timerIntervals' = TimerEffect(status, Disconnected, timerIntervals)
    /\ IF mode = "video" THEN StopVideo
       ELSE UNCHANGED <<pc, localStream, openPcs, liveStreams>>
    /\ sameRender' = (sameRender /\ status = Disconnected)
    /\ last' = "disconnect"
    /\ emitted' = out
    /\ notice' = "none"
    /\ UNCHANGED <<home, mode, messages, input, time, isBanned, banTimeLeft,
                   banIntervals, awaitingMedia, awaitingOffer, signalBinds,
                   remoteSrc, remoteFrame, banHistory>>
    /\ UNCHANGED fmt

ClientDisconnectAutoNext == DisconnectAction(Trigger("client-next", NoData))
ClientDisconnect == DisconnectAction(<<>>)

\* ------------------------------------------------------------ timer ticks
\* one firing of a live ban countdown interval
BanTick ==
    /\ redirectToChat
    /\ banIntervals > 0
    /\ banTimeLeft' = BanUpdater(banTimeLeft).left
    /\ IF BanUpdater(banTimeLeft).ended
       THEN /\ isBanned' = FALSE
            /\ status' = Looking
            /\ banIntervals' = BanEffect(isBanned, FALSE, banIntervals - 1)
       ELSE /\ status' = TickStatus(banTimeLeft)
            /\ UNCHANGED <<isBanned, banIntervals>>
    /\ timerIntervals' = TimerEffect(status, status', timerIntervals)
    /\ banTicks' = banTicks + 1
    /\ sameRender' = FALSE
    /\ last' = "banTick"
    /\ emitted' = <<>>
    /\ notice' = "none"
    /\ UNCHANGED <<home, mode, messages, input, time, video, banEpoch, banDuration>>
    /\ UNCHANGED fmt

\* one firing of a live session timer interval
TimerTick ==
    /\ redirectToChat
    /\ timerIntervals > 0
    /\ time < MaxTime
    /\ time' = time + 1
    /\ sameRender' = FALSE
    /\ last' = "timerTick"
    /\ emitted' = <<>>
    /\ notice' = "none"
    /\ UNCHANGED <<home, mode, messages, status, input, isBanned, banTimeLeft,
                   timers, video, banHistory>>
    /\ UNCHANGED fmt

\* ------------------------------------------------------------- video chat
\* getUserMedia resolved: initVideo runs from the assignment of localStream
\* to its await of createOffer
GetUserMediaResolved ==
    /\ awaitingMedia > 0
    /\ awaitingMedia' = awaitingMedia - 1
    /\ localStream' = "live"
    /\ liveStreams' = liveStreams + 1
    /\ pc' = "open"
    /\ openPcs' = openPcs + 1
    /\ signalBinds' = signalBinds + 1
    /\ awaitingOffer' = awaitingOffer + 1
    /\ last' = "media"
    /\ emitted' = <<>>
    /\ notice' = "none"
    /\ UNCHANGED <<home, chatState, timers, sameRender, remoteSrc, remoteFrame,
                   banHistory>>
    /\ UNCHANGED fmt

\* getUserMedia rejected: initVideo ends with the rejection
GetUserMediaRejected ==
    /\ awaitingMedia > 0
    /\ awaitingMedia' = awaitingMedia - 1
    /\ last' = "mediaRejected"
    /\ emitted' = <<>>
    /\ notice' = "none"
    /\ UNCHANGED <<home, chatState, timers, sameRender, pc, localStream, openPcs,
                   liveStreams, awaitingOffer, signalBinds, remoteSrc,
                   remoteFrame, banHistory>>
    /\ UNCHANGED fmt

\* createOffer and setLocalDescription settled: the offer is triggered, unless
\* `pc` was closed meanwhile and setLocalDescription rejects
OfferCreated ==
    /\ awaitingOffer > 0
    /\ awaitingOffer' = awaitingOffer - 1
    /\ emitted' = IF pc = "open" THEN Trigger("client-offer", <<"offer">>) ELSE <<>>
    /\ last' = "offer"
    /\ notice' = "none"
    /\ UNCHANGED <<home, chatState, timers, sameRender, pc, localStream, openPcs,
                   liveStreams, awaitingMedia, signalBinds, remoteSrc,
                   remoteFrame, banHistory>>
    /\ UNCHANGED fmt

\* inbound `client-offer`: each of the signalBinds handlers bound by initVideo
\* runs setRemoteDescription, createAnswer and setLocalDescription on the one
\* `pc` variable they share.  A closed connection rejects them all; an open
\* one lets at most one setLocalDescription(answer) through, and none when
\* the browser rejects a remote offer that meets the local offer already set
ClientOffer ==
    /\ redirectToChat
    /\ channel
    /\ signalBinds > 0
    /\ \E answers \in 0 .. (IF pc = "open" THEN 1 ELSE 0) :
         emitted' = [i \in 1 .. answers |-> Ev("client-answer", <<"answer">>)]
    /\ last' = "clientOffer"
    /\ notice' = "none"
    /\ UNCHANGED <<home, chatState, timers, sameRender, video, banHistory>>
    /\ UNCHANGED fmt

\* pc.ontrack, fired by the connection initVideo created once a remote
\* description with tracks is applied: the remote stream becomes the remote
\* <video>'s srcObject
OnTrack ==
    /\ pc = "open"
    /\ RemoteVideoMounted
    /\ remoteSrc' = TRUE
    /\ last' = "track"
    /\ emitted' = <<>>
    /\ notice' = "none"
    /\ UNCHANGED <<home, chatState, timers, sameRender, pc, localStream, openPcs,
                   liveStreams, awaitingMedia, awaitingOffer, signalBinds,
                   remoteFrame, banHistory>>
    /\ UNCHANGED fmt

\* the remote <video> decodes a frame of its stream
RemoteFrameDecoded ==
    /\ remoteSrc
    /\ pc = "open"
    /\ ~remoteFrame
    /\ remoteFrame' = TRUE
    /\ last' = "frame"
    /\ emitted' = <<>>
    /\ notice' = "none"
    /\ UNCHANGED <<home, chatState, timers, sameRender, pc, localStream, openPcs,
                   liveStreams, awaitingMedia, awaitingOffer, signalBinds,
                   remoteSrc, banHistory>>
    /\ UNCHANGED fmt

\* ---------------------------------------------------------- specifications
Common ==
    \/ onSubmit
    \/ ChannelEstablished
    \/ handleNext
    \/ reportUser
    \/ Banned
    \/ Matched
    \/ ClientMessage
    \/ ClientDisconnect
    \/ BanTick
    \/ TimerTick

\* the session the landing view starts: text mode
Next ==
    \/ Common
    \/ onChange
    \/ sendMessage

Spec == Init /\ [][Next]_vars

\* the interval timer of a running ban countdown keeps firing
FairSpec == Init /\ [][Next]_vars /\ WF_vars(BanTick)

\* a video-mode session: no text input is rendered
NextVideo ==
    \/ Common
    \/ GetUserMediaResolved
    \/ GetUserMediaRejected
    \/ OfferCreated
    \/ ClientOffer
    \/ OnTrack
    \/ RemoteFrameDecoded

SpecVideo == VideoInit /\ [][NextVideo]_vars

\* formatTime on its own: one call with an argument of 0 .. MaxSeconds seconds
FormatInit == InitWith(InitialMode) /\ fmtArg \in 0 .. MaxSeconds /\ fmtResult = ""

FormatCall ==
    /\ fmtResult = ""
    /\ fmtResult' = formatTime(fmtArg)
    /\ UNCHANGED <<home, chatState, timers, sameRender, video, last, emitted,
                   notice, banHistory, fmtArg>>

FormatNext == FormatCall

SpecFormat == FormatInit /\ [][FormatNext]_vars

\* ------------------------------------------------------------------ claims
InboundOrTick == {"matched", "message", "disconnect", "banned", "banTick", "timerTick"}
UserActions == {"next", "send", "report"}
EventNames == {"client-next", "client-message", "client-report",
               "client-offer", "client-answer", "client-ice"}

\* the countdown tick as the claims state it
TickStep ==
    last' = "banTick" =>
        /\ isBanned
        /\ IF banTimeLeft > 1
           THEN banTimeLeft' = banTimeLeft - 1 /\ isBanned'
           ELSE banTimeLeft' = 0 /\ ~isBanned' /\ status' = Looking

\* C1: while a ban is active every countdown tick changes the remaining
\* seconds once: from t > 1 to t - 1 with the ban still active, from t <= 1
\* to 0 with the flag cleared and the status "Looking for someone...".  At
\* most one countdown interval is live at any time, also after a second
\* `banned` event during a ban.
C1_BanCountdown ==
    /\ [](banIntervals <= 1)
    /\ [][TickStep]_vars

\* a countdown that a second `banned` event restarted has run down to zero
C1_Witness ==
    /\ last = "banTick"
    /\ ~isBanned
    /\ banEpoch = 0
    /\ banDuration >= 2
    /\ banTicks = banDuration

\* C2: sendMessage with an empty input emits nothing and leaves messages,
\* input, status, timer and ban state unchanged.
C2_EmptySendNoOp ==
    [][(last' = "send" /\ input = "") =>
          /\ emitted' = <<>>
          /\ UNCHANGED <<messages, input, status, time, isBanned, banTimeLeft>>]_vars

\* an empty send on an established channel, in a connected session with a
\* message in the list
C2_Witness ==
    /\ last = "send"
    /\ channel
    /\ emitted = <<>>
    /\ status = Connected
    /\ Len(messages) = 1

\* C3 as stated: "next" emits exactly one `client-next` in every reachable
\* state, and leaves an empty list, the looking status and timer 0.
C3_Original ==
    last = "next" =>
        /\ emitted = <<Ev("client-next", NoData)>>
        /\ messages = <<>>
        /\ status = Looking
        /\ time = 0

\* C3 (amended): "next" emits exactly one `client-next` when the channel
\* exists and no event while it does not; in both cases the list is then
\* empty, the status "Looking for someone..." and the timer 0.
C3_Next ==
    last = "next" =>
        /\ channel => emitted = <<Ev("client-next", NoData)>>
        /\ ~channel => emitted = <<>>
        /\ messages = <<>>
        /\ status = Looking
        /\ time = 0

\* "next" was pressed during a ban, on an established channel
C3_Witness == last = "next" /\ channel /\ isBanned /\ banTimeLeft >= 1

\* C4: a report without an available remote frame shows the error notice
\* and emits nothing; `client-report` is emitted only with a captured frame,
\* and then the success notice is shown.
C4_Report ==
    last = "report" =>
        /\ ~remoteFrame => (notice = "error" /\ emitted = <<>>)
        /\ emitted # <<>> => (remoteFrame /\ notice = "success")

IsPrefix(s, t) == Len(s) <= Len(t) /\ SubSeq(t, 1, Len(s)) = s

\* C5: every operation but "next" keeps the old list as a prefix of the new
\* one; a send appends one {you, input} entry and an inbound `client-message`
\* one {stranger, text} entry at the end.
C5_AppendOnly ==
    [][last' # "next" =>
          /\ IsPrefix(messages, messages')
          /\ (last' = "send" /\ input # "") =>
                 messages' = messages \o <<[from |-> "you", text |-> input]>>
          /\ last' = "message" =>
                 /\ Len(messages') = Len(messages) + 1
                 /\ messages'[Len(messages')].from = "stranger"
                 /\ messages'[Len(messages')].text \in Texts
          /\ last' \notin {"send", "message"} => messages' = messages]_vars

\* a sent message followed by a received one
C5_Witness ==
    /\ last = "message"
    /\ Len(messages) = 2
    /\ messages[1].from = "you"
    /\ messages[2].from = "stranger"

Digit(k) == <<"0", "1", "2", "3", "4", "5", "6", "7", "8", "9">>[k + 1]
TwoDigits(n) == Digit(n \div 10) \o Digit(n % 10)
BannedTexts ==
    {"You are banned (" \o TwoDigits(d \div 60) \o ":" \o TwoDigits(d % 60) \o ")" :
        d \in Durations}

\* C6: the status is one of the looking, connected, disconnected and
\* "You are banned (mm:ss)" statuses, and it is the looking status initially.
C6_StatusDomain ==
    /\ status \in {Looking, Connected, Disconnected} \cup BannedTexts
    /\ last = "init" => status = Looking

\* the banned status as a countdown tick rewrote it
C6_Witness == status = "You are banned (00:02)" /\ last = "banTick"

\* C7: after a `banned` event, unless another one arrives, fair ticks end
\* the ban (flag false, 0 seconds, looking status); a ban of d >= 1 seconds
\* ends at the d-th tick after the event.
C7_BanEnds ==
    /\ \A e \in {0, 1} :
          (isBanned /\ banEpoch = e)
              ~> ((~isBanned /\ banTimeLeft = 0 /\ status = Looking) \/ banEpoch # e)
    /\ [][(isBanned /\ ~isBanned') =>
             banTicks' = (IF banDuration >= 1 THEN banDuration ELSE 1)]_vars
    /\ [](isBanned => banTicks < (IF banDuration >= 1 THEN banDuration ELSE 1))

\* the longest ban has ended, with "next", a match and a message in between
C7_Witness ==
    /\ last = "banTick"
    /\ ~isBanned
    /\ banDuration = MaxDuration
    /\ banTicks = MaxDuration
    /\ Len(messages) > 0
    /\ time > 0

\* C8 as stated: after "next" the message list, the status and the ban
\* state hold their initial values.
C8_Original ==
    last = "next" =>
        /\ messages = <<>>
        /\ status = Looking
        /\ ~isBanned
        /\ banTimeLeft = 0

\* C8 (amended): after "next" the message list and the status hold their
\* initial values, and the ban flag and the remaining seconds are what
\* they were before.
C8_NextDiscards ==
    [][last' = "next" =>
          /\ messages' = <<>>
          /\ status' = Looking
          /\ isBanned' = isBanned
          /\ banTimeLeft' = banTimeLeft
          /\ banIntervals' = banIntervals]_vars

\* "next" during a ban with messages in the list: the ban is still there
C8_Witness ==
    /\ last = "next"
    /\ isBanned
    /\ banTimeLeft = 2
    /\ messages = <<>>
    /\ status = Looking

\* C9: only the six client events are emitted, and in a text-mode session
\* only by "next", send and report: no inbound event and no tick emits.
C9_OnlyUserActionsEmit ==
    /\ \A i \in 1 .. Len(emitted) : emitted[i].name \in EventNames
    /\ last \in InboundOrTick => emitted = <<>>
    /\ emitted # <<>> => last \in UserActions

\* a disconnect was handled on an established channel and nothing went out
C9_Witness == last = "disconnect" /\ channel /\ status = Disconnected /\ emitted = <<>>

\* C10: the mode is "text" from the start and never changes, so no
\* initVideo is started by `matched` and no stopVideo reaches a connection.
C10_ModeFixed ==
    /\ mode = "text"
    /\ awaitingMedia = 0 /\ awaitingOffer = 0 /\ signalBinds = 0
    /\ pc = "undefined" /\ localStream = "undefined"
    /\ openPcs = 0 /\ liveStreams = 0

\* a match and then a disconnect were handled in the session
C10_Witness == last = "disconnect" /\ time > 0 /\ mode = "text"

\* C11: the start action requests the channel and shows the chat view; once
\* the chat view is shown it stays shown, the request stays made, and the
\* start action can no longer be activated.
C11_StartOnce ==
    /\ [](last = "start" => (startPusher /\ redirectToChat))
    /\ [](redirectToChat => (startPusher /\ ~ENABLED onSubmit))
    /\ [][(redirectToChat => redirectToChat') /\ (startPusher => startPusher')]_vars

\* the chat view long after the start: the channel came and "next" was used
C11_Witness == redirectToChat /\ startPusher /\ channel /\ last = "next"

\* C12: in a video session, once one initVideo has run to its end, "next"
\* and `client-disconnect` leave the peer connection it created closed and
\* the tracks of the stream it captured stopped.
C12_VideoStopped ==
    (/\ last \in {"next", "disconnect"}
     /\ signalBinds = 1
     /\ awaitingMedia = 0
     /\ awaitingOffer = 0)
        => (openPcs = 0 /\ liveStreams = 0)

\* what a send of a non-empty input does to the list, the input and the rest
SendEffect ==
    /\ messages' = messages \o <<[from |-> "you", text |-> input]>>
    /\ input' = ""
    /\ UNCHANGED <<status, time, isBanned, banTimeLeft, banIntervals, timerIntervals>>

\* C13 as stated: a send of a non-empty input emits exactly one
\* `client-message` with the text, appends {you, text}, clears the input and
\* leaves status, timer and ban state unchanged, in every status.
C13_Original ==
    [][(last' = "send" /\ input # "") =>
          /\ emitted' = <<Ev("client-message", <<input>>)>>
          /\ SendEffect]_vars

\* C13 (amended): the same, with exactly one `client-message` when the
\* channel exists and no event while it does not.
C13_Send ==
    [][(last' = "send" /\ input # "") =>
          /\ channel => emitted' = <<Ev("client-message", <<input>>)>>
          /\ ~channel => emitted' = <<>>
          /\ SendEffect]_vars

\* a message was sent during a ban, after one was received
C13_Witness ==
    /\ last = "send"
    /\ emitted = <<Ev("client-message", <<"hi">>)>>
    /\ isBanned
    /\ Len(messages) = 2
    /\ messages[2] = [from |-> "you", text |-> "hi"]
    /\ input = ""

\* C14: the ban flag is set exactly when the status is the banned status.
C14_BanFlagAgrees == isBanned <=> status \in BannedTexts

BannedText(d) ==
    "You are banned (" \o TwoDigits(d \div 60) \o ":" \o TwoDigits(d % 60) \o ")"

\* C15: a banned status shows the remaining ban seconds as mm:ss, and the
\* status is that text after a `banned` event and after every countdown tick
\* that leaves the ban active.
C15_StatusShowsTimeLeft ==
    /\ status \in BannedTexts => status = BannedText(banTimeLeft)
    /\ (last = "banned" \/ (last = "banTick" /\ isBanned))
           => status = BannedText(banTimeLeft)

\* one second remains after two ticks of a three-second ban
C15_Witness ==
    /\ last = "banTick"
    /\ isBanned
    /\ banDuration = 3
    /\ banTimeLeft = 1
    /\ status = "You are banned (00:01)"

\* C16: the session timer is never negative and its interval runs exactly
\* while the status is the connected status; a timer tick happens in that
\* status and adds exactly 1, "next" sets the timer to 0, and every other
\* step leaves it unchanged.
C16_TimerChanges ==
    /\ [](time >= 0 /\ timerIntervals = (IF status = Connected THEN 1 ELSE 0))
    /\ [][/\ last' = "timerTick" => (status = Connected /\ time' = time + 1)
          /\ last' = "next" => time' = 0
          /\ last' \notin {"timerTick", "next"} => time' = time]_vars

\* the second tick of a connection that has seen a message
C16_Witness ==
    /\ last = "timerTick"
    /\ status = Connected
    /\ time = 2
    /\ Len(messages) = 1

\* C17: whenever a `matched` event turns a status other than the connected
\* status into the connected status, the session timer is 0 afterwards.
C17_MatchedStartsAtZero ==
    [][(last' = "matched" /\ status # Connected) => time' = 0]_vars

\* C18: the signalling handlers are bound at most once on the channel, every
\* initVideo that reaches createOffer sends exactly one `client-offer`, and
\* every inbound `client-offer` is answered by exactly one `client-answer`.
C18_SignallingOnce ==
    /\ [](signalBinds <= 1)
    /\ [][last' = "offer" => emitted' = <<Ev("client-offer", <<"offer">>)>>]_vars
    /\ [][last' = "clientOffer" => emitted' = <<Ev("client-answer", <<"answer">>)>>]_vars

\* C19: for 0 <= n < 6000 seconds formatTime(n) is the five characters
\* "MM:SS", with MM the two decimal digits of n \div 60 and SS the two decimal
\* digits of n % 60.
C19_FormatTime ==
    (fmtResult # "" /\ fmtArg < 6000) =>
        /\ Len(fmtResult) = 5
        /\ fmtResult = TwoDigits(fmtArg \div 60) \o ":" \o TwoDigits(fmtArg % 60)

\* the largest argument of the range
C19_Witness == fmtArg = 5999 /\ fmtResult = "99:59"

====
